---- MODULE Spec2Model ----
(***************************************************************************)
(* gitgather: the selection engine (apply_filters), the tree builder        *)
(* (capture_tree_output) and the driver (generate_repo_overview) of        *)
(* src/gitgather/gather.py.                                                *)
(*                                                                         *)
(* A Python str is a sequence of one-character strings, so that the path   *)
(* and pattern functions of the standard library (os.path.relpath,         *)
(* os.path.basename, str.startswith, str.split, fnmatch.fnmatch) are       *)
(* computed character by character, as the library computes them.  The     *)
(* separator is "/" (posixpath).  The characters "-", "\" and "^" do not   *)
(* occur in any path or pattern of the model, so a character class of a    *)
(* glob holds literal members only.                                        *)
(***************************************************************************)
EXTENDS Integers, Sequences, FiniteSets, TLC

VARIABLES
    cwd,                \* os.getcwd(): os.path.relpath resolves relative paths against it
    dirs,               \* the absolute paths for which os.path.isdir is true
    repo_path,          \* the root argument
    paths,              \* apply_filters: the caller's list of candidate paths
    include_patterns,   \* apply_filters: the caller's include argument (None or a list)
    exclude_patterns,   \* apply_filters: the caller's exclude argument (None or a list)
    include_globs, include_files, exclude_globs, exclude_files,
    idx,                \* position of the for loop over paths (1-based)
    filtered_paths,     \* the list apply_filters builds and returns
    pc,                 \* position in apply_filters
    call,               \* 1: first call, 2: the result filtered again (SpecIdem)
    first_result,       \* what the first call returned (SpecIdem)
    filtered_file_paths,\* capture_tree_output: its list argument
    path_tree,          \* capture_tree_output: the nested dict, as node paths in insertion order
    tidx,               \* position of the for loop over filtered_file_paths
    tree_lines,         \* capture_tree_output: the list of lines
    tree_output,        \* the string capture_tree_output returns
    tpc,                \* position in capture_tree_output
    on_disk,            \* what os.walk(repo_path) yields: (dirpath, filename) pairs
    git_files,          \* what get_git_files(repo_path) returns
    unreadable,         \* the paths for which open() or read() raises
    no_git,             \* generate_repo_overview: its no_git argument
    tree_output_flag,   \* generate_repo_overview: its tree_output argument
    all_file_paths,     \* generate_repo_overview: its locals
    file_paths,
    prefiltered_file_paths,
    all_included_filtered_file_paths,
    outfile,            \* the blocks written to the output file, in order
    errors,             \* the paths logged by logger.error at line 294
    fpos,               \* position of the for loop over filtered_file_paths at line 284
    opc                 \* position in generate_repo_overview

vars == <<cwd, dirs, repo_path, paths, include_patterns, exclude_patterns,
          include_globs, include_files, exclude_globs, exclude_files,
          idx, filtered_paths, pc, call, first_result,
          filtered_file_paths, path_tree, tidx, tree_lines, tree_output, tpc,
          on_disk, git_files, unreadable, no_git, tree_output_flag,
          all_file_paths, file_paths, prefiltered_file_paths,
          all_included_filtered_file_paths, outfile, errors, fpos, opc>>

filter_vars == <<paths, include_patterns, exclude_patterns,
                 include_globs, include_files, exclude_globs, exclude_files,
                 idx, filtered_paths, pc, call, first_result>>

tree_vars == <<filtered_file_paths, path_tree, tidx, tree_lines, tree_output, tpc>>

overview_vars == <<on_disk, git_files, unreadable, no_git, tree_output_flag,
                   all_file_paths, file_paths, prefiltered_file_paths,
                   all_included_filtered_file_paths, outfile, errors, fpos, opc>>

(***************************************************************************)
(* Bounds of the model.                                                    *)
(***************************************************************************)
MaxPaths == 2       \* longest enumerated candidate list
MaxPatterns == 2    \* most patterns in the enumerated include and exclude lists together
MaxFiles == 3       \* longest enumerated list given to capture_tree_output
MaxRepoFiles == 2   \* most files on disk, and most tracked files, of an enumerated repository

(***************************************************************************)
(* str: comparison, startswith, split, join.                               *)
(***************************************************************************)
\* The characters of the model in code point order (Python compares str by code point).
Alphabet ==
    <<"!", "*", ".", "/", "0", "1", "2", "3", "4", "5", "6", "7", "8", "9", "?",
      "[", "]", "a", "b", "c", "d", "e", "f", "g", "h", "i", "j", "k", "l", "m",
      "n", "o", "p", "q", "r", "s", "t", "u", "v", "w", "x", "y", "z">>

Ord(c) == CHOOSE i \in 1..Len(Alphabet) : Alphabet[i] = c

\* s < t for two str: the first differing character decides, a proper prefix is smaller.
RECURSIVE StrLess(_, _)
StrLess(s, t) ==
    IF t = <<>> THEN FALSE
    ELSE IF s = <<>> THEN TRUE
    ELSE IF s[1] = t[1] THEN StrLess(Tail(s), Tail(t))
    ELSE Ord(s[1]) < Ord(t[1])

StartsWith(s, p) == Len(s) >= Len(p) /\ SubSeq(s, 1, Len(p)) = p

\* s.split(c)
RECURSIVE Split(_, _)
Split(s, c) ==
    IF \A i \in 1..Len(s) : s[i] # c THEN <<s>>
    ELSE LET k == CHOOSE i \in 1..Len(s) : s[i] = c /\ \A j \in 1..(i - 1) : s[j] # c
         IN  <<SubSeq(s, 1, k - 1)>> \o Split(SubSeq(s, k + 1, Len(s)), c)

\* c.join(parts)
RECURSIVE StrJoin(_, _)
StrJoin(parts, c) ==
    IF parts = <<>> THEN <<>>
    ELSE IF Len(parts) = 1 THEN parts[1]
    ELSE parts[1] \o <<c>> \o StrJoin(Tail(parts), c)

\* [x for x in xs if x]
NonEmpty(xs) == SelectSeq(xs, LAMBDA x : x # <<>>)

(***************************************************************************)
(* posixpath.                                                              *)
(***************************************************************************)
IsAbs(p) == StartsWith(p, <<"/">>)

\* os.path.join(a, b)
PathJoin(a, b) ==
    IF IsAbs(b) THEN b
    ELSE IF a = <<>> \/ a[Len(a)] = "/" THEN a \o b
    ELSE a \o <<"/">> \o b

\* the loop of os.path.normpath over the components
RECURSIVE NormComps(_, _, _)
NormComps(comps, new_comps, initial_slashes) ==
    IF comps = <<>> THEN new_comps
    ELSE LET comp == Head(comps)
             rest == Tail(comps)
         IN  IF comp = <<>> \/ comp = <<".">> THEN NormComps(rest, new_comps, initial_slashes)
             ELSE IF \/ comp # <<".", ".">>
                     \/ (initial_slashes = 0 /\ new_comps = <<>>)
                     \/ (new_comps # <<>> /\ new_comps[Len(new_comps)] = <<".", ".">>)
                  THEN NormComps(rest, Append(new_comps, comp), initial_slashes)
             ELSE IF new_comps # <<>>
                  THEN NormComps(rest, SubSeq(new_comps, 1, Len(new_comps) - 1), initial_slashes)
             ELSE NormComps(rest, new_comps, initial_slashes)

\* os.path.normpath(path)
NormPath(path) ==
    IF path = <<>> THEN <<".">>
    ELSE LET initial_slashes ==
                 IF ~StartsWith(path, <<"/">>) THEN 0
                 ELSE IF StartsWith(path, <<"/", "/">>) /\ ~StartsWith(path, <<"/", "/", "/">>)
                      THEN 2 ELSE 1
             body == StrJoin(NormComps(Split(path, "/"), <<>>, initial_slashes), "/")
             res == [i \in 1..initial_slashes |-> "/"] \o body
         IN  IF res = <<>> THEN <<".">> ELSE res

\* os.path.abspath(path)
AbsPath(path) == NormPath(IF IsAbs(path) THEN path ELSE PathJoin(cwd, path))

\* len(os.path.commonprefix([a, b])) for two lists
RECURSIVE CommonLen(_, _)
CommonLen(a, b) ==
    IF a = <<>> \/ b = <<>> \/ a[1] # b[1] THEN 0
    ELSE 1 + CommonLen(Tail(a), Tail(b))

\* os.path.relpath(path, start=start); path is not empty (an empty path raises ValueError)
RelPath(path, start) ==
    LET start_list == NonEmpty(Split(AbsPath(start), "/"))
        path_list == NonEmpty(Split(AbsPath(path), "/"))
        i == CommonLen(start_list, path_list)
        rel_list == [k \in 1..(Len(start_list) - i) |-> <<".", ".">>]
                    \o SubSeq(path_list, i + 1, Len(path_list))
    IN  IF rel_list = <<>> THEN <<".">> ELSE StrJoin(rel_list, "/")

\* os.path.basename(p)
BaseName(p) == LET parts == Split(p, "/") IN parts[Len(parts)]

\* os.path.isdir(p)
IsDir(p) == AbsPath(p) \in dirs

(***************************************************************************)
(* fnmatch.fnmatch(name, pat): posixpath.normcase is the identity, and the *)
(* pattern is matched against the whole name.                              *)
(***************************************************************************)
\* fnmatch.translate: the index of the "]" closing the class opened at pat[1] = "[",
\* or 0 when there is none (the "[" is then a literal character).
RECURSIVE SkipToClose(_, _)
SkipToClose(pat, j) ==
    IF j > Len(pat) THEN 0
    ELSE IF pat[j] = "]" THEN j
    ELSE SkipToClose(pat, j + 1)

ClassEnd(pat) ==
    LET j1 == IF 2 <= Len(pat) /\ pat[2] = "!" THEN 3 ELSE 2
        j2 == IF j1 <= Len(pat) /\ pat[j1] = "]" THEN j1 + 1 ELSE j1
    IN  SkipToClose(pat, j2)

\* whether character c is in the class with body stuff (the text between "[" and "]")
InClass(c, stuff) ==
    IF stuff[1] = "!"
    THEN \A k \in 2..Len(stuff) : stuff[k] # c
    ELSE \E k \in 1..Len(stuff) : stuff[k] = c

RECURSIVE FnMatch(_, _)
FnMatch(name, pat) ==
    IF pat = <<>> THEN name = <<>>
    ELSE IF pat[1] = "*"
         THEN \E k \in 0..Len(name) : FnMatch(SubSeq(name, k + 1, Len(name)), Tail(pat))
    ELSE IF pat[1] = "?"
         THEN name # <<>> /\ FnMatch(Tail(name), Tail(pat))
    ELSE IF pat[1] = "[" /\ ClassEnd(pat) # 0
         THEN LET j == ClassEnd(pat)
              IN  /\ name # <<>>
                  /\ InClass(name[1], SubSeq(pat, 2, j - 1))
                  /\ FnMatch(Tail(name), SubSeq(pat, j + 1, Len(pat)))
    ELSE name # <<>> /\ name[1] = pat[1] /\ FnMatch(Tail(name), Tail(pat))

(***************************************************************************)
(* The paths and patterns the inputs are drawn from.                       *)
(***************************************************************************)
s_root == <<"/", "r">>
s_other == <<"/", "c">>
s_a_txt == <<"a", ".", "t", "x", "t">>
s_a_md == <<"a", ".", "m", "d">>
s_b_md == <<"b", ".", "m", "d">>
s_dir_c_txt == <<"d", "i", "r", "/", "c", ".", "t", "x", "t">>
s_abs_dir_b_md == <<"/", "r", "/", "d", "i", "r", "/", "b", ".", "m", "d">>
s_dir == <<"d", "i", "r">>
g_star_txt == <<"*", ".", "t", "x", "t">>
g_class == <<"[", "!", "a", "]", ".", "m", "?">>
g_star_md == <<"*", ".", "m", "d">>
s_dir1_x_md == <<"d", "i", "r", "1", "/", "x", ".", "m", "d">>
s_dir1 == <<"d", "i", "r", "1">>
s_keep_txt == <<"k", "e", "e", "p", ".", "t", "x", "t">>
s_drop_txt == <<"d", "r", "o", "p", ".", "t", "x", "t">>
s_file1_txt == <<"f", "i", "l", "e", "1", ".", "t", "x", "t">>
s_file2_md == <<"f", "i", "l", "e", "2", ".", "m", "d">>
s_file3_txt == <<"f", "i", "l", "e", "3", ".", "t", "x", "t">>
s_file4_rtf == <<"f", "i", "l", "e", "4", ".", "r", "t", "f">>
s_file5_rtf == <<"f", "i", "l", "e", "5", ".", "r", "t", "f">>
g_star_rtf == <<"*", ".", "r", "t", "f">>
s_dir2 == <<"d", "i", "r", "2">>
s_dir3 == <<"d", "i", "r", "3">>
s_dir4 == <<"d", "i", "r", "4">>
s_dir4_subdir == <<"d", "i", "r", "4", "/", "s", "u", "b", "d", "i", "r">>
s_dot_git == <<".", "g", "i", "t">>

\* Candidate paths: relative ones (resolved against cwd) and an absolute one under the root.
PathUniverse == {s_a_md, s_b_md, s_dir_c_txt, s_abs_dir_b_md}

\* Patterns: exact names (a directory, a basename) and globs.
PatternUniverse == {s_dir, s_b_md, g_star_md, g_class}

\* The working directories: the root itself, and a directory outside it (as in the tests,
\* where the root is a fresh temporary directory).
CwdUniverse == {s_root, s_other}

SeqsUpTo(S, n) == UNION {[1..k -> S] : k \in 0..n}

\* A pattern argument is None or a list.
None == [isNone |-> TRUE, items |-> <<>>]
List(l) == [isNone |-> FALSE, items |-> l]

\* The lists of the tests and of the spec's scenarios.
ScenarioGlobInclude ==
    [paths |-> <<s_a_txt, s_b_md, s_dir_c_txt>>, inc |-> List(<<g_star_txt>>), exc |-> List(<<>>)]
ScenarioDirExclude ==
    [paths |-> <<s_a_txt, s_dir1_x_md>>, inc |-> List(<<>>), exc |-> List(<<s_dir1>>)]
ScenarioExactOverGlob ==
    [paths |-> <<s_keep_txt, s_drop_txt>>, inc |-> List(<<s_keep_txt>>), exc |-> List(<<g_star_txt>>)]
\* tests/test_gitgather.py, test_apply_filters
ScenarioTestFilters ==
    [paths |-> <<s_file1_txt, s_file2_md, s_file3_txt, s_file4_rtf, s_file5_rtf>>,
     inc |-> List(<<g_star_txt, s_file4_rtf>>),
     exc |-> List(<<s_file1_txt, g_star_rtf>>)]
\* tests/test_gitgather.py, test_apply_filters_with_directories
ScenarioTestDirectories ==
    [paths |-> <<s_file1_txt, s_file2_md, s_file3_txt, s_file4_rtf, s_file5_rtf,
                 s_dir1, s_dir2, s_dir3, s_dir4, s_dir4_subdir>>,
     inc |-> List(<<g_star_txt, s_dir1, s_dir4_subdir>>),
     exc |-> List(<<s_file1_txt, s_dir2, s_dir4, s_dot_git>>)]

Scenarios == {ScenarioGlobInclude, ScenarioDirExclude, ScenarioExactOverGlob,
              ScenarioTestFilters, ScenarioTestDirectories}

\* The include and exclude lists together hold at most MaxPatterns patterns; an argument
\* may also be None.
PatternPairs ==
    {<<List(i), List(e)>> : <<i, e>> \in
        {pr \in SeqsUpTo(PatternUniverse, MaxPatterns) \X SeqsUpTo(PatternUniverse, MaxPatterns) :
            Len(pr[1]) + Len(pr[2]) <= MaxPatterns}}
    \cup {<<None, None>>, <<None, List(<<>>)>>, <<List(<<>>), None>>}
    \cup {<<None, List(<<q>>)>> : q \in PatternUniverse}
    \cup {<<List(<<q>>), None>> : q \in PatternUniverse}

FilterInputs ==
    Scenarios \cup
    {[paths |-> p, inc |-> pr[1], exc |-> pr[2]] :
        p \in SeqsUpTo(PathUniverse, MaxPaths), pr \in PatternPairs}

(***************************************************************************)
(* apply_filters(paths, repo_path, include_patterns, exclude_patterns)     *)
(***************************************************************************)
\* x or []
OrEmpty(x) == IF x.isNone \/ x.items = <<>> THEN <<>> ELSE x.items

is_glob_pattern(pattern) ==
    \E i \in 1..Len(pattern) : pattern[i] \in {"*", "?", "[", "]"}

\* p in xs, for a list xs
In(p, xs) == \E i \in 1..Len(xs) : xs[i] = p

\* is_excluded without the directory-prefix test of line 117
is_excluded_no_prefix(path) ==
    \/ In(path, exclude_files)
    \/ LET rel_path == RelPath(path, repo_path)
       IN  \E i \in 1..Len(exclude_files) : rel_path = exclude_files[i]

is_excluded(path) ==
    \/ In(path, exclude_files)
    \/ LET rel_path == RelPath(path, repo_path)
       IN  \/ \E i \in 1..Len(exclude_files) : rel_path = exclude_files[i]
           \/ \E i \in 1..Len(exclude_files) :
                  StartsWith(rel_path, exclude_files[i] \o <<"/">>)

\* is_included without the basename test of line 130
is_included_no_basename(path) ==
    \/ In(path, include_files)
    \/ LET rel_path == RelPath(path, repo_path)
       IN  \E i \in 1..Len(include_files) :
               StartsWith(rel_path, include_files[i] \o <<"/">>)

\* is_included without the raw-path test of line 125
is_included_no_raw(path) ==
    LET rel_path == RelPath(path, repo_path)
    IN  \/ \E i \in 1..Len(include_files) :
               StartsWith(rel_path, include_files[i] \o <<"/">>)
        \/ \E i \in 1..Len(include_files) : BaseName(path) = include_files[i]

is_included(path) ==
    \/ In(path, include_files)
    \/ LET rel_path == RelPath(path, repo_path)
       IN  \/ \E i \in 1..Len(include_files) :
                  StartsWith(rel_path, include_files[i] \o <<"/">>)
           \/ \E i \in 1..Len(include_files) : BaseName(path) = include_files[i]

\* matches_glob on the basename instead of the root-relative form
matches_glob_basename(path, glob_patterns) ==
    LET rel_path == RelPath(path, repo_path)
    IN  \E i \in 1..Len(glob_patterns) : FnMatch(BaseName(rel_path), glob_patterns[i])

\* matches_glob with all() for any(): an empty pattern list then matches every path
matches_glob_all(path, glob_patterns) ==
    LET rel_path == RelPath(path, repo_path)
    IN  \A i \in 1..Len(glob_patterns) : FnMatch(rel_path, glob_patterns[i])

matches_glob(path, glob_patterns) ==
    LET rel_path == RelPath(path, repo_path)
    IN  \E i \in 1..Len(glob_patterns) : FnMatch(rel_path, glob_patterns[i])

\* lines 94-138: the four pattern lists, and the empty result list
Partition ==
    /\ pc = "start"
    /\ include_globs' = SelectSeq(OrEmpty(include_patterns), is_glob_pattern)
    /\ include_files' = SelectSeq(OrEmpty(include_patterns), LAMBDA p : ~is_glob_pattern(p))
    /\ exclude_globs' = SelectSeq(OrEmpty(exclude_patterns), is_glob_pattern)
    /\ exclude_files' = SelectSeq(OrEmpty(exclude_patterns), LAMBDA p : ~is_glob_pattern(p))
    /\ filtered_paths' = <<>>
    /\ idx' = 1
    /\ pc' = "loop"
    /\ UNCHANGED <<cwd, dirs, repo_path, paths, include_patterns, exclude_patterns,
                   call, first_result>>
    /\ UNCHANGED tree_vars
    /\ UNCHANGED overview_vars

InLoop == pc = "loop" /\ idx <= Len(paths)

\* the loop body leaves everything but its index and the result list alone
LoopFrame ==
    /\ UNCHANGED <<cwd, dirs, repo_path, paths, include_patterns, exclude_patterns,
                   include_globs, include_files, exclude_globs, exclude_files,
                   pc, call, first_result>>
    /\ UNCHANGED tree_vars
    /\ UNCHANGED overview_vars

\* Keep with filtered_paths.insert(0, path) for append
KeepPrepend == idx' = idx + 1 /\ filtered_paths' = <<paths[idx]>> \o filtered_paths /\ LoopFrame

Keep == idx' = idx + 1 /\ filtered_paths' = Append(filtered_paths, paths[idx]) /\ LoopFrame

\* Drop as a removal from the list being iterated: the candidate after a dropped one is
\* never examined and stays
DropKeepNext ==
    /\ idx' = idx + 2
    /\ filtered_paths' = IF idx + 1 <= Len(paths) THEN Append(filtered_paths, paths[idx + 1])
                         ELSE filtered_paths
    /\ LoopFrame

Drop == idx' = idx + 1 /\ filtered_paths' = filtered_paths /\ LoopFrame

\* lines 143-149
SkipExcluded ==
    /\ InLoop
    /\ is_excluded(paths[idx])
    /\ Drop

\* lines 151-155
AddIncluded ==
    /\ InLoop
    /\ ~is_excluded(paths[idx])
    /\ is_included(paths[idx])
    /\ Keep

\* lines 157-167
AddIncludeGlob ==
    /\ InLoop
    /\ ~is_excluded(paths[idx])
    /\ ~is_included(paths[idx])
    /\ include_globs # <<>>
    /\ matches_glob(paths[idx], include_globs)
    /\ ~matches_glob(paths[idx], exclude_globs)
    /\ Keep

\* lines 168-175
SkipIncludeGlob ==
    /\ InLoop
    /\ ~is_excluded(paths[idx])
    /\ ~is_included(paths[idx])
    /\ include_globs # <<>>
    /\ ~(matches_glob(paths[idx], include_globs) /\ ~matches_glob(paths[idx], exclude_globs))
    /\ Drop

\* lines 176-184
AddNoExcludeGlob ==
    /\ InLoop
    /\ ~is_excluded(paths[idx])
    /\ ~is_included(paths[idx])
    /\ include_globs = <<>>
    /\ ~matches_glob(paths[idx], exclude_globs)
    /\ Keep

\* lines 185-191
SkipExcludeGlob ==
    /\ InLoop
    /\ ~is_excluded(paths[idx])
    /\ ~is_included(paths[idx])
    /\ include_globs = <<>>
    /\ matches_glob(paths[idx], exclude_globs)
    /\ Drop

\* line 195
Return ==
    /\ pc = "loop"
    /\ idx > Len(paths)
    /\ pc' = "done"
    /\ UNCHANGED <<cwd, dirs, repo_path, paths, include_patterns, exclude_patterns,
                   include_globs, include_files, exclude_globs, exclude_files,
                   idx, filtered_paths, call, first_result>>
    /\ UNCHANGED tree_vars
    /\ UNCHANGED overview_vars

TreeIdle ==
    /\ filtered_file_paths = <<>>
    /\ path_tree = <<>>
    /\ tidx = 0
    /\ tree_lines = <<>>
    /\ tree_output = <<>>
    /\ tpc = "idle"

\* generate_repo_overview is not running
OverviewIdle ==
    /\ on_disk = <<>>
    /\ git_files = <<>>
    /\ unreadable = {}
    /\ no_git = FALSE
    /\ tree_output_flag = FALSE
    /\ all_file_paths = <<>>
    /\ file_paths = <<>>
    /\ prefiltered_file_paths = <<>>
    /\ all_included_filtered_file_paths = <<>>
    /\ outfile = <<>>
    /\ errors = <<>>
    /\ fpos = 0
    /\ opc = "idle"

\* The state at the call of apply_filters.
Init ==
    /\ cwd \in CwdUniverse
    /\ dirs = {s_root}
    /\ repo_path = s_root
    /\ \E in \in FilterInputs :
           /\ paths = in.paths
           /\ include_patterns = in.inc
           /\ exclude_patterns = in.exc
    /\ include_globs = <<>>
    /\ include_files = <<>>
    /\ exclude_globs = <<>>
    /\ exclude_files = <<>>
    /\ idx = 0
    /\ filtered_paths = <<>>
    /\ pc = "start"
    /\ call = 1
    /\ first_result = <<>>
    /\ TreeIdle
    /\ OverviewIdle

Next ==
    \/ Partition
    \/ SkipExcluded
    \/ AddIncluded
    \/ AddIncludeGlob
    \/ SkipIncludeGlob
    \/ AddNoExcludeGlob
    \/ SkipExcludeGlob
    \/ Return

Spec == Init /\ [][Next]_vars

\* The caller filters the list it got once more, with the same root and patterns.
Reapply ==
    /\ pc = "done"
    /\ call = 1
    /\ call' = 2
    /\ first_result' = filtered_paths
    /\ paths' = filtered_paths
    /\ pc' = "start"
    /\ UNCHANGED <<cwd, dirs, repo_path, include_patterns, exclude_patterns,
                   include_globs, include_files, exclude_globs, exclude_files,
                   idx, filtered_paths>>
    /\ UNCHANGED tree_vars
    /\ UNCHANGED overview_vars

NextIdem == Next \/ Reapply

SpecIdem == Init /\ [][NextIdem]_vars

(***************************************************************************)
(* Properties of apply_filters.                                            *)
(***************************************************************************)
Done == pc = "done"

\* The exact and the glob patterns of an argument, read off the argument itself.
ExactOf(a) == {OrEmpty(a)[i] : i \in {j \in 1..Len(OrEmpty(a)) : ~is_glob_pattern(OrEmpty(a)[j])}}
GlobOf(a) == {OrEmpty(a)[i] : i \in {j \in 1..Len(OrEmpty(a)) : is_glob_pattern(OrEmpty(a)[j])}}

Rel(p) == RelPath(p, repo_path)

\* an exact exclude pattern equals the root-relative form of p or names an ancestor of it
UnderExactExclude(p) ==
    \E e \in ExactOf(exclude_patterns) : Rel(p) = e \/ StartsWith(Rel(p), e \o <<"/">>)

InputsAre(sc) ==
    paths = sc.paths /\ include_patterns = sc.inc /\ exclude_patterns = sc.exc

C2_ExactIncludeBeatsGlob ==
    Done =>
        /\ \A i \in 1..Len(paths) :
               (/\ paths[i] \notin ExactOf(exclude_patterns)
                /\ ~UnderExactExclude(paths[i])
                /\ BaseName(paths[i]) \in ExactOf(include_patterns))
               => In(paths[i], filtered_paths)
        /\ InputsAre(ScenarioExactOverGlob) => filtered_paths = <<s_keep_txt>>

\* C2 witness: a finished run that kept a candidate for its basename alone (its raw string
\* is no include pattern) although an exclude glob matches it.
C2_Witness ==
    /\ Done
    /\ \E i \in 1..Len(paths) :
           /\ BaseName(paths[i]) \in ExactOf(include_patterns)
           /\ paths[i] \notin ExactOf(include_patterns)
           /\ \E g \in GlobOf(exclude_patterns) : FnMatch(Rel(paths[i]), g)
           /\ In(paths[i], filtered_paths)

\* what the glob rule says of p
GlobRule(p) ==
    IF GlobOf(include_patterns) # {}
    THEN /\ \E g \in GlobOf(include_patterns) : FnMatch(Rel(p), g)
         /\ ~\E g \in GlobOf(exclude_patterns) : FnMatch(Rel(p), g)
    ELSE ~\E g \in GlobOf(exclude_patterns) : FnMatch(Rel(p), g)

\* C3: a candidate on which neither exact rule fires is in the result iff, with an include
\* glob present, its whole root-relative form matches an include glob and no exclude glob,
\* and, with none present, it matches no exclude glob; "*" spans separators, so include
\* [*.txt] selects dir/c.txt as well as a.txt.
C3_GlobFallback ==
    Done =>
        /\ \A i \in 1..Len(paths) :
               (~is_excluded(paths[i]) /\ ~is_included(paths[i]))
               => (In(paths[i], filtered_paths) <=> GlobRule(paths[i]))
        /\ InputsAre(ScenarioGlobInclude) => filtered_paths = <<s_a_txt, s_dir_c_txt>>

\* C3 witness: a finished run that kept, by the glob rule, a candidate whose root-relative
\* form holds a separator, and dropped another by the glob rule.
C3_Witness ==
    /\ Done
    /\ GlobOf(include_patterns) # {}
    /\ \E i \in 1..Len(paths) :
           /\ ~is_excluded(paths[i]) /\ ~is_included(paths[i])
           /\ In("/", Rel(paths[i]))
           /\ In(paths[i], filtered_paths)
    /\ \E i \in 1..Len(paths) :
           /\ ~is_excluded(paths[i]) /\ ~is_included(paths[i])
           /\ ~In(paths[i], filtered_paths)

\* an exact exclude pattern names a directory above the raw string of p
ParentExcluded(p) ==
    \E e \in ExactOf(exclude_patterns) : StartsWith(p, e \o <<"/">>)

C5_NoPatternsIdentity ==
    (Done /\ OrEmpty(include_patterns) = <<>> /\ OrEmpty(exclude_patterns) = <<>>)
        => filtered_paths = paths

\* C5 witness: a finished run with include None and exclude [] over a list that repeats
\* a candidate.
C5_Witness ==
    /\ Done
    /\ include_patterns = None
    /\ exclude_patterns = List(<<>>)
    /\ Len(paths) = 2
    /\ paths[1] = paths[2]

\* a is b with some elements left out
RECURSIVE IsSubsequence(_, _)
IsSubsequence(a, b) ==
    IF a = <<>> THEN TRUE
    ELSE IF b = <<>> THEN FALSE
    ELSE IF a[1] = b[1] THEN IsSubsequence(Tail(a), Tail(b))
    ELSE IsSubsequence(a, Tail(b))

\* C6: the result is a subsequence of the input (every returned path occurs in the input,
\* in the input's order), and no step changes the input list or either pattern argument.
C6_OrderPreservingSubsequence ==
    /\ [](IsSubsequence(filtered_paths, paths))
    /\ [][/\ paths' = paths
          /\ include_patterns' = include_patterns
          /\ exclude_patterns' = exclude_patterns]_vars

\* C6 witness: a finished run that kept two different candidates and dropped one.
C6_Witness ==
    /\ Done
    /\ Len(filtered_paths) >= 2
    /\ filtered_paths[1] # filtered_paths[2]
    /\ Len(filtered_paths) < Len(paths)

\* C7: filtering the result again with the same root and patterns returns it unchanged.
C7_Idempotent ==
    (Done /\ call = 2) => filtered_paths = first_result

\* C7 witness: the test's lists, where the first call kept three of ten candidates, and
\* the second call has finished.
C7_Witness ==
    /\ Done
    /\ call = 2
    /\ include_patterns = ScenarioTestDirectories.inc
    /\ exclude_patterns = ScenarioTestDirectories.exc
    /\ first_result = <<s_file3_txt, s_dir1, s_dir4_subdir>>

(***************************************************************************)
(* capture_tree_output(repo_path, filtered_file_paths)                     *)
(*                                                                         *)
(* The nested dict path_tree is the sequence of its nodes, each the list   *)
(* of keys from the top dict down to it, in the order the nodes were       *)
(* created: the keys of one dict, in that dict's insertion order, are the  *)
(* nodes one key longer than it, in the order of the sequence.             *)
(* A line is the sequence of its prefix units, its connector and the       *)
(* characters of its name.  The box-drawing strings are written in ASCII.  *)
(***************************************************************************)
BRANCH == "|-- "      \* the connector of a child that is not the last
TERMINAL == "+-- "    \* the connector of the last child
PIPE == "|   "        \* the prefix unit under a child that is not the last
BLANK == "    "       \* the prefix unit under the last child

t_a == <<"/", "r", "/", "a">>
t_e == <<"/", "r", "/", "e">>
t_d_f9 == <<"/", "r", "/", "d", "/", "f", "9">>
t_d_f10 == <<"/", "r", "/", "d", "/", "f", "1", "0">>
t_d_e == <<"/", "r", "/", "d", "/", "e">>
t_c_x == <<"/", "r", "/", "c", "/", "x">>
t_dir_x_md == <<"/", "r", "/", "d", "i", "r", "/", "x", ".", "m", "d">>
t_dir_y_md == <<"/", "r", "/", "d", "i", "r", "/", "y", ".", "m", "d">>
t_z_md == <<"/", "r", "/", "z", ".", "m", "d">>
t_dir4_file9_md == <<"/", "r", "/", "d", "i", "r", "4", "/", "f", "i", "l", "e", "9", ".", "m", "d">>
t_dir4_file10_md == <<"/", "r", "/", "d", "i", "r", "4", "/", "f", "i", "l", "e", "1", "0", ".", "m", "d">>
d_d == <<"/", "r", "/", "d">>
d_c == <<"/", "r", "/", "c">>
d_e == <<"/", "r", "/", "e">>
d_dir == <<"/", "r", "/", "d", "i", "r">>
d_dir4 == <<"/", "r", "/", "d", "i", "r", "4">>
n_dir == <<"d", "i", "r">>
n_x_md == <<"x", ".", "m", "d">>
n_y_md == <<"y", ".", "m", "d">>
n_z_md == <<"z", ".", "m", "d">>
n_dir4 == <<"d", "i", "r", "4">>
n_file9_md == <<"f", "i", "l", "e", "9", ".", "m", "d">>
n_file10_md == <<"f", "i", "l", "e", "1", "0", ".", "m", "d">>

\* Absolute paths under the root: a top-level file, a name that is a directory or a file
\* (by dirs), nested files, and a nested file named as the top-level e.
FileUniverse == {t_a, t_e, t_d_f9, t_d_f10, t_d_e, t_c_x}

\* The directories of the file system: with /r/e a file and with /r/e a directory, with
\* /r/d/e a directory, and a file system where nothing exists (the root and every
\* directory of the list are unknown).
BaseDirs == {s_root, d_d, d_c, d_dir, d_dir4}
DirsUniverse == {BaseDirs, BaseDirs \cup {d_e}, BaseDirs \cup {t_d_e}, {}}

\* The lists of the spec's scenario and of test_nogit_exclude_multiple_patterns (dir4).
ScenarioTreeSpec == <<t_dir_x_md, t_dir_y_md, t_z_md>>
ScenarioTreeTest == <<t_dir4_file9_md, t_dir4_file10_md, t_z_md>>

TreeInputs == SeqsUpTo(FileUniverse, MaxFiles) \cup {ScenarioTreeSpec, ScenarioTreeTest}

\* lines 20-24: the nodes of tree after the walk down parts, from part k on
RECURSIVE InsertParts(_, _, _)
InsertParts(tree, parts, k) ==
    IF k > Len(parts) THEN tree
    ELSE LET node == SubSeq(parts, 1, k)
         IN  InsertParts(IF In(node, tree) THEN tree ELSE Append(tree, node), parts, k + 1)

\* lines 17-24: the body of the loop over filtered_file_paths
InsertFile(tree, root, file_path) ==
    InsertParts(tree, Split(RelPath(file_path, root), "/"), 1)

\* tree[node].items(): the keys of the dict at node, in insertion order
Children(tree, node) ==
    LET kids == SelectSeq(tree, LAMBDA n : Len(n) = Len(node) + 1
                                           /\ SubSeq(n, 1, Len(node)) = node)
    IN  [i \in 1..Len(kids) |-> kids[i][Len(kids[i])]]

\* sorted(names): insertion of x into a sorted list
RECURSIVE SortedInsert(_, _)
SortedInsert(x, sorted) ==
    IF sorted = <<>> THEN <<x>>
    ELSE IF StrLess(sorted[1], x) THEN <<sorted[1]>> \o SortedInsert(x, Tail(sorted))
    ELSE <<x>> \o sorted

RECURSIVE SortAsc(_)
SortAsc(names) ==
    IF names = <<>> THEN <<>> ELSE SortedInsert(names[1], SortAsc(Tail(names)))

\* sorted() that leaves the list in the order it came
Unsorted(names) == names

\* sorted(reverse=True)
SortedDescending(names) ==
    LET asc == SortAsc(names) IN [i \in 1..Len(asc) |-> asc[Len(asc) + 1 - i]]

\* sorted(names), for the names of one bucket (distinct keys of one dict)
Sorted(names) == SortAsc(names)

\* line 44 with the test of the files bucket left out
DirIsLastAmongDirs(i, n, files) == i = n

\* line 44: is_last = i == len(dirs_with_files) - 1 and not files (i counted from 1 here)
DirIsLast(i, n, files) == i = n /\ files = <<>>

\* line 49: is_last = i == len(files) - 1
FileIsLast(i, n) == i = n

Connector(is_last) == IF is_last THEN TERMINAL ELSE BRANCH

\* lines 31-38: the three buckets of the dict at node
DirsWithFiles(tree, node) ==
    SelectSeq(Children(tree, node), LAMBDA name : Children(tree, Append(node, name)) # <<>>)

EmptyDirs(tree, root, node) ==
    SelectSeq(Children(tree, node),
              LAMBDA name : /\ Children(tree, Append(node, name)) = <<>>
                            /\ IsDir(PathJoin(root, name)))

Files(tree, root, node) ==
    SelectSeq(Children(tree, node),
              LAMBDA name : /\ Children(tree, Append(node, name)) = <<>>
                            /\ ~IsDir(PathJoin(root, name)))

\* the concatenation of a list of lists
RECURSIVE Flatten(_)
Flatten(ls) == IF ls = <<>> THEN <<>> ELSE ls[1] \o Flatten(Tail(ls))

\* lines 26-50: the lines build_tree appends for the dict at node
RECURSIVE build_tree(_, _, _, _)
build_tree(tree, root, node, prefix) ==
    LET empty_dirs == Sorted(EmptyDirs(tree, root, node))
        dirs_with_files == Sorted(DirsWithFiles(tree, node))
        files == Sorted(Files(tree, root, node))
        nd == Len(dirs_with_files)
        nf == Len(files)
    IN  [i \in 1..Len(empty_dirs) |-> prefix \o <<BRANCH>> \o empty_dirs[i]]
        \o Flatten([i \in 1..nd |->
               LET is_last == DirIsLast(i, nd, files)
               IN  <<prefix \o <<Connector(is_last)>> \o dirs_with_files[i]>>
                   \o build_tree(tree, root, Append(node, dirs_with_files[i]),
                                 prefix \o <<IF is_last THEN BLANK ELSE PIPE>>)])
        \o [i \in 1..nf |-> prefix \o <<Connector(FileIsLast(i, nf))>> \o files[i]]

\* line 16-24, one file
InsertStep ==
    /\ tpc = "insert"
    /\ tidx <= Len(filtered_file_paths)
    /\ path_tree' = InsertFile(path_tree, repo_path, filtered_file_paths[tidx])
    /\ tidx' = tidx + 1
    /\ UNCHANGED <<cwd, dirs, repo_path, filtered_file_paths, tree_lines, tree_output, tpc>>
    /\ UNCHANGED filter_vars
    /\ UNCHANGED overview_vars

\* line 52
BuildStep ==
    /\ tpc = "insert"
    /\ tidx > Len(filtered_file_paths)
    /\ tree_lines' = tree_lines \o build_tree(path_tree, repo_path, <<>>, <<>>)
    /\ tpc' = "built"
    /\ UNCHANGED <<cwd, dirs, repo_path, filtered_file_paths, path_tree, tidx, tree_output>>
    /\ UNCHANGED filter_vars
    /\ UNCHANGED overview_vars

\* line 54
ReturnTree ==
    /\ tpc = "built"
    /\ tree_output' = StrJoin(tree_lines, "\n")
    /\ tpc' = "done"
    /\ UNCHANGED <<cwd, dirs, repo_path, filtered_file_paths, path_tree, tidx, tree_lines>>
    /\ UNCHANGED filter_vars
    /\ UNCHANGED overview_vars

FilterIdle ==
    /\ paths = <<>>
    /\ include_patterns = None
    /\ exclude_patterns = None
    /\ include_globs = <<>>
    /\ include_files = <<>>
    /\ exclude_globs = <<>>
    /\ exclude_files = <<>>
    /\ idx = 0
    /\ filtered_paths = <<>>
    /\ pc = "idle"
    /\ call = 0
    /\ first_result = <<>>

\* line 13 as tree_lines = []
InitTreeNoRootLine ==
    /\ cwd = s_other
    /\ dirs \in DirsUniverse
    /\ repo_path = s_root
    /\ filtered_file_paths \in TreeInputs
    /\ path_tree = <<>>
    /\ tidx = 1
    /\ tree_lines = <<>>
    /\ tree_output = <<>>
    /\ tpc = "insert"
    /\ FilterIdle
    /\ OverviewIdle

\* The state at the call of capture_tree_output, after lines 13-14.
InitTree ==
    /\ cwd = s_other
    /\ dirs \in DirsUniverse
    /\ repo_path = s_root
    /\ filtered_file_paths \in TreeInputs
    /\ path_tree = <<>>
    /\ tidx = 1
    /\ tree_lines = <<<<".">>>>
    /\ tree_output = <<>>
    /\ tpc = "insert"
    /\ FilterIdle
    /\ OverviewIdle

NextTree ==
    \/ InsertStep
    \/ BuildStep
    \/ ReturnTree

SpecTree == InitTree /\ [][NextTree]_vars

\* lines 16-24: the dict after the loop over files
RECURSIVE InsertAll(_, _, _)
InsertAll(tree, root, files) ==
    IF files = <<>> THEN tree
    ELSE InsertAll(InsertFile(tree, root, files[1]), root, Tail(files))

\* lines 11-54: the string returned for a list of files
capture_tree_output(root, files) ==
    StrJoin(<<<<".">>>> \o build_tree(InsertAll(<<>>, root, files), root, <<>>, <<>>), "\n")

(***************************************************************************)
(* Properties of capture_tree_output, read off the returned string.        *)
(***************************************************************************)
TreeDone == tpc = "done"

\* the lines after the root line
OutLines == Tail(Split(tree_output, "\n"))

\* a line's number of prefix units, its connector and its name
Depth(line) ==
    CHOOSE k \in 0..Len(line) :
        /\ \A i \in 1..k : line[i] \in {PIPE, BLANK}
        /\ k = Len(line) \/ line[k + 1] \notin {PIPE, BLANK}
Conn(line) == line[Depth(line) + 1]
Name(line) == SubSeq(line, Depth(line) + 2, Len(line))

\* the line of the parent of line k (0: the root), by indentation
ParentLine(k) ==
    IF Depth(OutLines[k]) = 0 THEN 0
    ELSE LET above == {j \in 1..(k - 1) : Depth(OutLines[j]) = Depth(OutLines[k]) - 1}
         IN  IF above = {} THEN -1 ELSE CHOOSE j \in above : \A i \in above : i <= j

\* the node line k shows: the names from the root down to it
RECURSIVE NodeOf(_)
NodeOf(k) == IF k <= 0 THEN <<>> ELSE Append(NodeOf(ParentLine(k)), Name(OutLines[k]))

\* the bucket the node of line k falls in at lines 31-38:
\* 1 empty directory, 2 directory with entries, 3 file
BucketOf(k) ==
    IF Children(path_tree, NodeOf(k)) # <<>> THEN 2
    ELSE IF IsDir(PathJoin(repo_path, Name(OutLines[k]))) THEN 1
    ELSE 3

Siblings(j, k) == ParentLine(j) = ParentLine(k)

NodesUnder(node) ==
    {i \in 1..Len(path_tree) :
        Len(path_tree[i]) > Len(node) /\ SubSeq(path_tree[i], 1, Len(node)) = node}

NamesOfLines == [k \in 1..Len(OutLines) |-> Name(OutLines[k])]

\* the lists that hold the same paths as l: its permutations, and l with an entry repeated
Rearrangements(l) ==
    {[i \in 1..Len(l) |-> l[f[i]]] : f \in Permutations(1..Len(l))}
    \cup {Append(l, l[k]) : k \in 1..Len(l)}
    \cup {<<l[k]>> \o l : k \in 1..Len(l)}

\* C8: the returned string is the same for every permutation of the list of selected
\* paths, and for the list with an entry repeated.
C8_OrderIndependent ==
    TreeDone =>
        \A q \in Rearrangements(filtered_file_paths) :
            capture_tree_output(repo_path, q) = tree_output

\* C8 witness: a finished run whose list, taken in another order, builds the dict with its
\* keys in another order.
C8_Witness ==
    /\ TreeDone
    /\ Len(tree_lines) >= 3
    /\ \E q \in Rearrangements(filtered_file_paths) :
           InsertAll(<<>>, repo_path, q) # path_tree

\* C9: every node of the dict has exactly one line, a directory's line is followed at once
\* by the lines of its whole subtree, and among the children of one node the empty
\* directories come first, then the directories with entries, then the files, each bucket
\* in ascending string order: dir (x.md, y.md) before z.md, file10.md before file9.md.
C9_BucketOrdering ==
    TreeDone =>
        /\ Len(OutLines) = Len(path_tree)
        /\ \A i \in 1..Len(path_tree) : \E k \in 1..Len(OutLines) : NodeOf(k) = path_tree[i]
        /\ \A k \in 1..Len(OutLines) :
               \A j \in (k + 1)..(k + Cardinality(NodesUnder(NodeOf(k)))) :
                   /\ j <= Len(OutLines)
                   /\ Len(NodeOf(j)) > Len(NodeOf(k))
                   /\ SubSeq(NodeOf(j), 1, Len(NodeOf(k))) = NodeOf(k)
        /\ \A j, k \in 1..Len(OutLines) :
               (j < k /\ Siblings(j, k)) =>
                   \/ BucketOf(j) < BucketOf(k)
                   \/ /\ BucketOf(j) = BucketOf(k)
                      /\ StrLess(Name(OutLines[j]), Name(OutLines[k]))
        /\ filtered_file_paths = ScenarioTreeSpec
               => NamesOfLines = <<n_dir, n_x_md, n_y_md, n_z_md>>
        /\ filtered_file_paths = ScenarioTreeTest
               => NamesOfLines = <<n_dir4, n_file10_md, n_file9_md, n_z_md>>

\* C9 witness: a finished run with an empty directory, a directory with entries and a file
\* under one node, where the order of the buckets is not the order of the names.
C9_Witness ==
    /\ TreeDone
    /\ \E i, j, k \in 1..Len(OutLines) :
           /\ Siblings(i, j) /\ Siblings(j, k)
           /\ BucketOf(i) = 1 /\ BucketOf(j) = 2 /\ BucketOf(k) = 3
           /\ StrLess(Name(OutLines[k]), Name(OutLines[j]))
           /\ StrLess(Name(OutLines[j]), Name(OutLines[i]))

\* the line among ks whose name is the greatest
LastByName(ks) ==
    {k \in ks : \A j \in ks : j = k \/ StrLess(Name(OutLines[j]), Name(OutLines[k]))}

\* C10: among the child lines of one node the terminal connector is on exactly one line
\* when the node has a file or a directory with entries: on the last file in sorted order
\* if there is a file, otherwise on the last directory with entries; every other child
\* line, and every line of an empty directory, has the branch connector.
C10_ConnectorAssignment ==
    TreeDone =>
        \A p \in 0..Len(OutLines) :
            LET kids == {k \in 1..Len(OutLines) : ParentLine(k) = p}
                files == {k \in kids : BucketOf(k) = 3}
                with_entries == {k \in kids : BucketOf(k) = 2}
                terminal == {k \in kids : Conn(OutLines[k]) = TERMINAL}
            IN  /\ \A k \in kids : Conn(OutLines[k]) \in {BRANCH, TERMINAL}
                /\ terminal = IF files # {} THEN LastByName(files)
                              ELSE IF with_entries # {} THEN LastByName(with_entries)
                              ELSE {}
                /\ (files # {} \/ with_entries # {}) => Cardinality(terminal) = 1

\* C10 witness: a finished run with a node that has an empty directory, a directory with
\* entries whose line has the branch connector, and a file whose line has the terminal one.
C10_Witness ==
    /\ TreeDone
    /\ \E p \in 0..Len(OutLines) :
           LET kids == {k \in 1..Len(OutLines) : ParentLine(k) = p}
           IN  /\ \E k \in kids : BucketOf(k) = 1
               /\ \E k \in kids : BucketOf(k) = 2 /\ Conn(OutLines[k]) = BRANCH
               /\ \E k \in kids : BucketOf(k) = 3 /\ Conn(OutLines[k]) = TERMINAL

\* line 17: os.path.relpath raises ValueError("no path specified") for an empty path
RelPathRaises(path) == path = <<>>

\* line 43: sorted() of (name, subtree) pairs compares two dicts, and raises TypeError,
\* when two pairs have the same name
SortRaises(names) == \E i, j \in 1..Len(names) : i # j /\ names[i] = names[j]

\* the step capture_tree_output is about to take would raise
Raises ==
    \/ /\ tpc = "insert"
       /\ tidx <= Len(filtered_file_paths)
       /\ RelPathRaises(filtered_file_paths[tidx])
    \/ /\ tpc = "insert"
       /\ tidx > Len(filtered_file_paths)
       /\ \E i \in 0..Len(path_tree) :
              SortRaises(DirsWithFiles(path_tree, IF i = 0 THEN <<>> ELSE path_tree[i]))

\* C11: the list of lines always starts with the root line ".", so does the returned
\* string; for an empty list of selected paths the returned string is exactly "."; and
\* whatever the list and whatever directories exist, no step raises and every state
\* before the return is at a step of the loop, at the call of build_tree or at the return.
C11_RootLineAndNoRaise ==
    /\ tree_lines # <<>> /\ tree_lines[1] = <<".">>
    /\ ~Raises
    /\ tpc \in {"insert", "built", "done"}
    /\ tpc = "insert" => tidx \in 1..(Len(filtered_file_paths) + 1)
    /\ TreeDone =>
           /\ Split(tree_output, "\n")[1] = <<".">>
           /\ Len(Split(tree_output, "\n")) = 1 + Len(path_tree)
           /\ filtered_file_paths = <<>> => tree_output = <<".">>

\* C11 witness: the call with an empty list, in a file system where no directory exists,
\* has returned the string ".".
C11_Witness ==
    /\ TreeDone
    /\ filtered_file_paths = <<>>
    /\ dirs = {}
    /\ tree_output = <<".">>

\* the buckets of the dict at node when a child without entries is classified by the
\* directory test of the root joined with the whole path from the root down to the child
EmptyDirsFullPath(tree, root, node) ==
    SelectSeq(Children(tree, node),
              LAMBDA name : /\ Children(tree, Append(node, name)) = <<>>
                            /\ IsDir(PathJoin(root, StrJoin(Append(node, name), "/"))))

FilesFullPath(tree, root, node) ==
    SelectSeq(Children(tree, node),
              LAMBDA name : /\ Children(tree, Append(node, name)) = <<>>
                            /\ ~IsDir(PathJoin(root, StrJoin(Append(node, name), "/"))))

\* the lines of the dict at node under that classification, rendered as build_tree renders
RECURSIVE BuildTreeFullPath(_, _, _, _)
BuildTreeFullPath(tree, root, node, prefix) ==
    LET empty_dirs == Sorted(EmptyDirsFullPath(tree, root, node))
        dirs_with_files == Sorted(DirsWithFiles(tree, node))
        files == Sorted(FilesFullPath(tree, root, node))
        nd == Len(dirs_with_files)
        nf == Len(files)
    IN  [i \in 1..Len(empty_dirs) |-> prefix \o <<BRANCH>> \o empty_dirs[i]]
        \o Flatten([i \in 1..nd |->
               LET is_last == DirIsLast(i, nd, files)
               IN  <<prefix \o <<Connector(is_last)>> \o dirs_with_files[i]>>
                   \o BuildTreeFullPath(tree, root, Append(node, dirs_with_files[i]),
                                        prefix \o <<IF is_last THEN BLANK ELSE PIPE>>)])
        \o [i \in 1..nf |-> prefix \o <<Connector(FileIsLast(i, nf))>> \o files[i]]

\* C13: the returned string is the rendering in which a child without entries, at any
\* depth, is in the empty-directories bucket iff the root joined with its whole path is a
\* directory, and is a file otherwise; so a selected file under a directory is rendered as
\* a file even when a directory of its name exists directly under the root.
C13_LeafClassifiedByFullPath ==
    TreeDone =>
        tree_output =
            StrJoin(<<<<".">>>> \o BuildTreeFullPath(path_tree, repo_path, <<>>, <<>>), "\n")

\* C13 reached: /r/d/e is a file and /r/e a directory; the call with the list [/r/d/e] has
\* returned, and the line of e under d has the branch connector of an empty directory.
C13_Witness ==
    /\ TreeDone
    /\ filtered_file_paths = <<t_d_e>>
    /\ d_e \in dirs
    /\ t_d_e \notin dirs
    /\ tree_output = StrJoin(<< <<".">>, <<TERMINAL, "d">>, <<BLANK, BRANCH, "e">> >>, "\n")

(***************************************************************************)
(* generate_repo_overview(repo_path, output_file, include, exclude,        *)
(*                        no_git, ..., tree_output)                        *)
(*                                                                         *)
(* The two calls of apply_filters and the call of capture_tree_output are  *)
(* the actions above, started here with the arguments the driver passes.   *)
(* include and exclude are handed through unchanged, so include_patterns   *)
(* and exclude_patterns hold them from the start; filtered_file_paths is   *)
(* the driver's local and the argument of capture_tree_output.             *)
(* The output file is the sequence of the blocks written to it.            *)
(***************************************************************************)
\* The files of the enumerated repositories, as names relative to the root.
OverviewNames == {s_a_md, s_b_md, s_dir_c_txt}

RepoSubsets == {S \in SUBSET OverviewNames : Cardinality(S) <= MaxRepoFiles}

OverviewIncludes == {None, List(<<>>), List(<<g_star_md>>), List(<<s_dir>>)}
OverviewExcludes == {None, List(<<s_b_md>>)}

\* tests/test_gitgather.py, test_nogitfalse_include_specific_patterns: a tracked .txt file,
\* untracked .txt, .md and .rtf files, include [*.txt, file5.rtf]
ScenarioTestNoGitFalse ==
    [disk |-> {s_file1_txt, s_file2_md, s_file3_txt, s_file5_rtf}, tracked |-> {s_file1_txt},
     denied |-> {}, inc |-> List(<<g_star_txt, s_file5_rtf>>), exc |-> None,
     no_git |-> FALSE, tree |-> TRUE]

\* a repository filtered with an exclude glob only
ScenarioExcludeGlob ==
    [disk |-> {s_a_md, s_b_md}, tracked |-> {s_a_md, s_b_md},
     denied |-> {}, inc |-> None, exc |-> List(<<g_class>>),
     no_git |-> FALSE, tree |-> TRUE]

\* A repository: the files on disk, the files of the index (one that is not on disk was
\* deleted from the work tree), at most one file on disk that cannot be opened, and the
\* arguments of the call.
OverviewInputs ==
    {ScenarioTestNoGitFalse, ScenarioExcludeGlob} \cup
    {r \in [disk : RepoSubsets, tracked : RepoSubsets, denied : SUBSET OverviewNames,
            inc : OverviewIncludes, exc : OverviewExcludes,
            no_git : BOOLEAN, tree : BOOLEAN] :
        r.denied \subseteq r.disk /\ Cardinality(r.denied) <= 1}

\* a set of strings as the list of them in ascending order
RECURSIVE SortedSeqOf(_)
SortedSeqOf(S) ==
    IF S = {} THEN <<>>
    ELSE LET m == CHOOSE x \in S : \A y \in S : y = x \/ StrLess(x, y)
         IN  <<m>> \o SortedSeqOf(S \ {m})

\* lines 227-231: the (dp, f) pair os.walk gives for the file of a relative name;
\* the dirpath of a subdirectory is os.path.join(top, dirname)
WalkPair(root, name) ==
    LET parts == Split(name, "/")
    IN  IF Len(parts) = 1 THEN [dp |-> root, f |-> name]
        ELSE [dp |-> PathJoin(root, StrJoin(SubSeq(parts, 1, Len(parts) - 1), "/")),
              f |-> parts[Len(parts)]]

\* set(xs), and the lists list(set) may give: the iteration order of a set of str is
\* not fixed (it follows the hashes, which differ from run to run)
Range(xs) == {xs[i] : i \in 1..Len(xs)}
Orderings(S) == {f \in [1..Cardinality(S) -> S] : \A x \in S : \E i \in 1..Cardinality(S) : f[i] = x}

\* the orders in which os.walk may give the files of a set of relative names: top-down,
\* the files of the root before those of a subdirectory, the files of one directory in
\* the order the file system lists them, which is not fixed
WalkOrders(S) ==
    {o \in Orderings(S) :
        \A i, j \in 1..Cardinality(S) :
            i < j => ~(Len(Split(o[i], "/")) > 1 /\ Len(Split(o[j], "/")) = 1)}

\* line 281 and lines 290-292: the blocks written
TreeBlock(text) == [kind |-> "tree", name |-> <<>>, body |-> text]
FileBlock(relative_path, file_contents) ==
    [kind |-> "file", name |-> relative_path, body |-> file_contents]

\* file.read(): what the file at filepath holds
Contents(filepath) == <<"contents of ">> \o filepath

\* if include: (a list that is neither None nor empty)
Truthy(x) == OrEmpty(x) # <<>>

\* The state at the call of generate_repo_overview.
InitOverview ==
    /\ cwd = s_other
    /\ dirs = {s_root, d_dir}
    /\ repo_path = s_root
    /\ \E in \in OverviewInputs :
           /\ \E o \in WalkOrders(in.disk) :
                  on_disk = [i \in 1..Cardinality(in.disk) |-> WalkPair(s_root, o[i])]
           /\ git_files = SortedSeqOf(in.tracked)
           /\ unreadable = {PathJoin(s_root, n) : n \in (in.tracked \ in.disk) \cup in.denied}
           /\ include_patterns = in.inc
           /\ exclude_patterns = in.exc
           /\ no_git = in.no_git
           /\ tree_output_flag = in.tree
    /\ paths = <<>>
    /\ include_globs = <<>>
    /\ include_files = <<>>
    /\ exclude_globs = <<>>
    /\ exclude_files = <<>>
    /\ idx = 0
    /\ filtered_paths = <<>>
    /\ pc = "idle"
    /\ call = 0
    /\ first_result = <<>>
    /\ TreeIdle
    /\ all_file_paths = <<>>
    /\ file_paths = <<>>
    /\ prefiltered_file_paths = <<>>
    /\ all_included_filtered_file_paths = <<>>
    /\ outfile = <<>>
    /\ errors = <<>>
    /\ fpos = 0
    /\ opc = "start"

\* lines 226-247: the walk, the choice of the candidates, the first call of apply_filters
GatherPaths ==
    /\ opc = "start"
    /\ LET walked == [i \in 1..Len(on_disk) |-> PathJoin(on_disk[i].dp, on_disk[i].f)]
           tracked == [i \in 1..Len(git_files) |-> PathJoin(repo_path, git_files[i])]
       IN  /\ all_file_paths' = walked
           /\ file_paths' = IF no_git THEN walked ELSE tracked
           /\ paths' = IF no_git THEN walked ELSE tracked
    /\ pc' = "start"
    /\ opc' = "prefilter"
    /\ UNCHANGED <<cwd, dirs, repo_path, include_patterns, exclude_patterns,
                   include_globs, include_files, exclude_globs, exclude_files,
                   idx, filtered_paths, call, first_result>>
    /\ UNCHANGED tree_vars
    /\ UNCHANGED <<on_disk, git_files, unreadable, no_git, tree_output_flag,
                   prefiltered_file_paths, all_included_filtered_file_paths,
                   outfile, errors, fpos>>

\* lines 248-257: include is given, the second call of apply_filters, on all files
FilterAllFiles ==
    /\ opc = "prefilter"
    /\ pc = "done"
    /\ Truthy(include_patterns)
    /\ prefiltered_file_paths' = filtered_paths
    /\ paths' = all_file_paths
    /\ pc' = "start"
    /\ opc' = "incfilter"
    /\ UNCHANGED <<cwd, dirs, repo_path, include_patterns, exclude_patterns,
                   include_globs, include_files, exclude_globs, exclude_files,
                   idx, filtered_paths, call, first_result>>
    /\ UNCHANGED tree_vars
    /\ UNCHANGED <<on_disk, git_files, unreadable, no_git, tree_output_flag,
                   all_file_paths, file_paths, all_included_filtered_file_paths,
                   outfile, errors, fpos>>

\* what the steps that set filtered_file_paths leave alone
SelectFrame ==
    /\ UNCHANGED <<cwd, dirs, repo_path>>
    /\ UNCHANGED filter_vars
    /\ UNCHANGED <<path_tree, tidx, tree_lines, tree_output, tpc>>
    /\ UNCHANGED <<on_disk, git_files, unreadable, no_git, tree_output_flag,
                   all_file_paths, file_paths, outfile, errors, fpos>>

\* lines 263-265 as prefiltered_file_paths + all_included_filtered_file_paths, without set()
CombineNoSet ==
    /\ opc = "incfilter"
    /\ pc = "done"
    /\ all_included_filtered_file_paths' = filtered_paths
    /\ filtered_file_paths' = prefiltered_file_paths \o filtered_paths
    /\ opc' = "selected"
    /\ UNCHANGED prefiltered_file_paths
    /\ SelectFrame

\* lines 258-265: list(set(prefiltered_file_paths + all_included_filtered_file_paths))
Combine ==
    /\ opc = "incfilter"
    /\ pc = "done"
    /\ all_included_filtered_file_paths' = filtered_paths
    /\ filtered_file_paths' \in Orderings(Range(prefiltered_file_paths \o filtered_paths))
    /\ opc' = "selected"
    /\ UNCHANGED prefiltered_file_paths
    /\ SelectFrame

\* lines 248-251 and 266-267: no include, the first result is the selection
UsePrefiltered ==
    /\ opc = "prefilter"
    /\ pc = "done"
    /\ ~Truthy(include_patterns)
    /\ prefiltered_file_paths' = filtered_paths
    /\ filtered_file_paths' = filtered_paths
    /\ opc' = "selected"
    /\ UNCHANGED all_included_filtered_file_paths
    /\ SelectFrame

\* lines 270-274: the call of capture_tree_output
CallTree ==
    /\ opc = "selected"
    /\ tree_output_flag
    /\ path_tree' = <<>>
    /\ tidx' = 1
    /\ tree_lines' = <<<<".">>>>
    /\ tpc' = "insert"
    /\ opc' = "tree"
    /\ UNCHANGED <<cwd, dirs, repo_path, filtered_file_paths, tree_output>>
    /\ UNCHANGED filter_vars
    /\ UNCHANGED <<on_disk, git_files, unreadable, no_git, tree_output_flag,
                   all_file_paths, file_paths, prefiltered_file_paths,
                   all_included_filtered_file_paths, outfile, errors, fpos>>

\* what the steps that write to the output file leave alone
WriteFrame ==
    /\ UNCHANGED <<cwd, dirs, repo_path>>
    /\ UNCHANGED filter_vars
    /\ UNCHANGED tree_vars
    /\ UNCHANGED <<on_disk, git_files, unreadable, no_git, tree_output_flag,
                   all_file_paths, file_paths, prefiltered_file_paths,
                   all_included_filtered_file_paths>>

\* lines 275-281: the output file is opened and the tree block written
WriteTree ==
    /\ opc = "tree"
    /\ tpc = "done"
    /\ outfile' = <<TreeBlock(tree_output)>>
    /\ fpos' = 1
    /\ opc' = "files"
    /\ UNCHANGED errors
    /\ WriteFrame

\* lines 271 and 278-280 with tree_output false: the output file is opened
OpenOutput ==
    /\ opc = "selected"
    /\ ~tree_output_flag
    /\ outfile' = <<>>
    /\ fpos' = 1
    /\ opc' = "files"
    /\ UNCHANGED errors
    /\ WriteFrame

InFileLoop == opc = "files" /\ fpos <= Len(filtered_file_paths)

\* lines 284-292: the file is read and its block written
WriteFile ==
    /\ InFileLoop
    /\ filtered_file_paths[fpos] \notin unreadable
    /\ outfile' = Append(outfile, FileBlock(RelPath(filtered_file_paths[fpos], repo_path),
                                            Contents(filtered_file_paths[fpos])))
    /\ fpos' = fpos + 1
    /\ UNCHANGED <<errors, opc>>
    /\ WriteFrame

\* lines 286-294 with the exception of open() left to propagate: the run ends there
SkipUnreadableAbort ==
    /\ InFileLoop
    /\ filtered_file_paths[fpos] \in unreadable
    /\ opc' = "raised"
    /\ UNCHANGED <<outfile, errors, fpos>>
    /\ WriteFrame

\* lines 286-288 and 293-294: open() or read() raises, the path is logged
SkipUnreadable ==
    /\ InFileLoop
    /\ filtered_file_paths[fpos] \in unreadable
    /\ errors' = Append(errors, filtered_file_paths[fpos])
    /\ fpos' = fpos + 1
    /\ UNCHANGED <<outfile, opc>>
    /\ WriteFrame

\* line 284, the list is exhausted: the output file is closed and the function returns
ReturnOverview ==
    /\ opc = "files"
    /\ fpos > Len(filtered_file_paths)
    /\ opc' = "done"
    /\ UNCHANGED <<outfile, errors, fpos>>
    /\ WriteFrame

NextOverview ==
    \/ GatherPaths
    \/ FilterAllFiles
    \/ Combine
    \/ UsePrefiltered
    \/ CallTree
    \/ WriteTree
    \/ OpenOutput
    \/ WriteFile
    \/ SkipUnreadable
    \/ ReturnOverview
    \/ Next
    \/ NextTree

SpecOverview == InitOverview /\ [][NextOverview]_vars

(***************************************************************************)
(* Properties of generate_repo_overview.                                   *)
(***************************************************************************)
OvDone == opc = "done"

\* the candidates of the two calls: the tracked files and the walked files
TrackedPaths == {PathJoin(repo_path, git_files[i]) : i \in 1..Len(git_files)}
WalkedPaths == {PathJoin(on_disk[i].dp, on_disk[i].f) : i \in 1..Len(on_disk)}

\* what the rules of apply_filters say of p, with the patterns of the call
Selects(p) == ~is_excluded(p) /\ (is_included(p) \/ GlobRule(p))

\* the positions of the output file that hold the content block of p
BlocksOf(p) ==
    {i \in 1..Len(outfile) : outfile[i].kind = "file" /\ outfile[i].name = Rel(p)}

InputsAreRepo(sc) ==
    /\ WalkedPaths = {PathJoin(repo_path, n) : n \in sc.disk}
    /\ TrackedPaths = {PathJoin(repo_path, n) : n \in sc.tracked}
    /\ unreadable = {PathJoin(repo_path, n) : n \in (sc.tracked \ sc.disk) \cup sc.denied}
    /\ include_patterns = sc.inc
    /\ exclude_patterns = sc.exc
    /\ no_git = sc.no_git
    /\ tree_output_flag = sc.tree

\* C12: with a non-empty include list and no_git false, the selection is the union of what
\* the rules select among the tracked files and among the walked files, each path once;
\* an untracked file the patterns select has its block in the output, and every selected
\* file that can be read has exactly one block, also when it is both tracked and walked.
C12_UnionWithoutDuplicates ==
    (OvDone /\ Truthy(include_patterns) /\ ~no_git) =>
        /\ Range(prefiltered_file_paths) = {p \in TrackedPaths : Selects(p)}
        /\ Range(all_included_filtered_file_paths) = {p \in WalkedPaths : Selects(p)}
        /\ Range(filtered_file_paths) =
               Range(prefiltered_file_paths) \cup Range(all_included_filtered_file_paths)
        /\ Cardinality(Range(filtered_file_paths)) = Len(filtered_file_paths)
        /\ \A p \in WalkedPaths \ TrackedPaths :
               (Selects(p) /\ p \notin unreadable) => BlocksOf(p) # {}
        /\ \A p \in Range(filtered_file_paths) :
               Cardinality(BlocksOf(p)) = IF p \in unreadable THEN 0 ELSE 1
        /\ \A i \in 1..Len(outfile) :
               outfile[i].kind = "file" =>
                   \E p \in Range(filtered_file_paths) : outfile[i].name = Rel(p)
        /\ InputsAreRepo(ScenarioTestNoGitFalse) =>
               {outfile[i].name : i \in {j \in 1..Len(outfile) : outfile[j].kind = "file"}}
                   = {s_file1_txt, s_file3_txt, s_file5_rtf}

\* C12 witness: a finished run with include given and no_git false, in which a selected
\* file is both tracked and walked and has one block, and an untracked file has its block.
C12_Witness ==
    /\ OvDone
    /\ Truthy(include_patterns)
    /\ ~no_git
    /\ \E p \in TrackedPaths \cap WalkedPaths :
           /\ In(p, prefiltered_file_paths)
           /\ In(p, all_included_filtered_file_paths)
           /\ Cardinality(BlocksOf(p)) = 1
    /\ \E p \in WalkedPaths \ TrackedPaths : Cardinality(BlocksOf(p)) = 1

\* the readable paths of a list, in its order, as their blocks
RECURSIVE BlocksOfReadable(_)
BlocksOfReadable(fs) ==
    IF fs = <<>> THEN <<>>
    ELSE (IF fs[1] \in unreadable THEN <<>> ELSE <<FileBlock(Rel(fs[1]), Contents(fs[1]))>>)
         \o BlocksOfReadable(Tail(fs))

\* the steps left to the run, at most: the phases ahead, each worth 100, and the
\* iterations left to the loop of the phase the run is in
StepsLeft ==
    LET filter_left == IF pc = "start" THEN Len(paths) + 3
                       ELSE IF pc = "loop" THEN Len(paths) - idx + 2
                       ELSE 0
        tree_left == IF tpc = "insert" THEN Len(filtered_file_paths) - tidx + 3
                     ELSE IF tpc = "built" THEN 1
                     ELSE 0
    IN  IF opc = "start" THEN 600
        ELSE IF opc = "prefilter" THEN 500 + filter_left
        ELSE IF opc = "incfilter" THEN 400 + filter_left
        ELSE IF opc = "selected" THEN 300
        ELSE IF opc = "tree" THEN 200 + tree_left
        ELSE IF opc = "files" THEN 100 + (Len(filtered_file_paths) - fpos + 1)
        ELSE 0

\* the run is at a point from which the code goes on: a statement of the driver, or a
\* statement of the function the driver is in
GoesOn ==
    \/ opc = "start"
    \/ opc \in {"prefilter", "incfilter"} /\ pc = "start"
    \/ opc \in {"prefilter", "incfilter"} /\ pc = "loop" /\ idx \in 1..(Len(paths) + 1)
    \/ opc \in {"prefilter", "incfilter"} /\ pc = "done"
    \/ opc = "selected"
    \/ opc = "tree" /\ tpc = "insert" /\ tidx \in 1..(Len(filtered_file_paths) + 1)
    \/ opc = "tree" /\ tpc \in {"built", "done"}
    \/ opc = "files" /\ fpos \in 1..(Len(filtered_file_paths) + 1)

\* C14: a file that cannot be opened or read is logged and skipped and the run goes on:
\* every state before the return is one the code goes on from, every step brings the
\* return nearer, and at the return the output file holds the tree block (when the tree
\* is enabled) and then the block of every selected file that could be read, in the order
\* of the iteration, the files after an unreadable one included, and exactly the
\* unreadable selected files were logged.
C14_UnreadableFilesSkipped ==
    /\ [](OvDone \/ GoesOn)
    /\ [](StepsLeft >= 0)
    /\ [][StepsLeft' < StepsLeft]_vars
    /\ [](OvDone =>
            /\ outfile =
                   (IF tree_output_flag
                    THEN <<TreeBlock(capture_tree_output(repo_path, filtered_file_paths))>>
                    ELSE <<>>)
                   \o BlocksOfReadable(filtered_file_paths)
            /\ errors = SelectSeq(filtered_file_paths, LAMBDA p : p \in unreadable))

\* C14 witness: a finished run with the tree enabled in which a file that could not be
\* opened was logged and a file after it in the iteration has its block in the output.
C14_Witness ==
    /\ OvDone
    /\ tree_output_flag
    /\ \E i, j \in 1..Len(filtered_file_paths) :
           /\ i < j
           /\ filtered_file_paths[i] \in unreadable
           /\ In(filtered_file_paths[i], errors)
           /\ filtered_file_paths[j] \notin unreadable
           /\ BlocksOf(filtered_file_paths[j]) # {}

====
